---- MODULE Spec2Model ----
(***************************************************************************)
(* nuclearcraft-designer: the backtracking optimiser (optimizer.py), the   *)
(* multidimensional sequence (core/multi_sequence.py), the placement rules *)
(* (core/placement_rule.py) and the layout constraints                     *)
(* (core/constraints.py, common/constraints.py).                           *)
(*                                                                         *)
(* Python indices are kept 0-based in the model; At(t, i) reads element i  *)
(* of a Python list or tuple held as a TLA+ sequence.                      *)
(***************************************************************************)
EXTENDS Integers, Sequences, FiniteSets, TLC

VARIABLES
    length,          \* OptimizableSequence.length
    max_value,       \* OptimizableSequence.max_value
    constraints,     \* OptimizableSequence.constraints (list of callables)
    scoring_func,    \* OptimizableSequence.scoring_func
    component_types, \* the catalog the optimiser's values index (value v is entry v-1)
    sequence,        \* OptimizableSequence.sequence
    call,            \* the method of OptimizableSequence called last
    ret,             \* what that call returned: "none", "True" or "False"
    visited,         \* complete states reached by successful next_valid_sequence calls of this pass
    pc,              \* position inside optimize: "idle", "loop", "done"
    opt_seq,         \* optimize's local opt_seq
    opt_score,       \* optimize's local opt_score
    score_calls,     \* the sequences the scoring function has been invoked on
    layout,          \* the MultiSequence of components a constraint is called on directly
    rule_self,       \* the placement rule called directly (self of __call__ and to_model)
    rule_args,       \* the neighbours it is called on (comp_names, or comp_ids for to_model)
    index_key        \* the key a method of MultiSequence is called with

vars == <<length, max_value, constraints, scoring_func, component_types, sequence,
          call, ret, visited, pc, opt_seq, opt_score, score_calls, layout,
          rule_self, rule_args, index_key>>

-----------------------------------------------------------------------------
(* Bounds of the model. *)

MaxLen == 3
MaxValue == 2
MaxQuantityCap == 1
CellCap == 4
MaxCells == 4
MaxSide == 3
MaxShaftSide == 5
MaxRuleQuantity == 2
MaxRank == 2
MaxLayoutRank == 3
MaxIndexCells == 6

-----------------------------------------------------------------------------
(* Python values. *)

None == [none |-> TRUE]

IndexError == [error |-> "IndexError"]

At(t, i) == t[i + 1]

Range(n) == 0 .. (n - 1)

\* -float('inf'): below every score a scoring function of the model returns
NegInf == -1000

-----------------------------------------------------------------------------
(* core/placement_rule.py *)

Always == [type |-> "PlacementRule"]

Simple(name, quantity, exact, axial) ==
    [type |-> "SimplePlacementRule", name |-> name, quantity |-> quantity,
     exact |-> exact, axial |-> axial]

Compound(rules, mode) ==
    [type |-> "CompoundPlacementRule", rules |-> rules, mode |-> mode]

RECURSIVE CountName(_, _, _)
\* quantity after the loop of lines 67-70 over comp_names[0 : n]
CountName(comp_names, name, n) ==
    IF n = 0 THEN 0
    ELSE CountName(comp_names, name, n - 1)
         + (IF At(comp_names, n - 1) = name THEN 1 ELSE 0)

\* mutant: the test of lines 64-65 for an unassigned neighbour is missing
SimplePlacementRuleCall_ignores_incomplete(rule, comp_names) ==
    LET quantity == CountName(comp_names, rule.name, Len(comp_names))
        axial == \E i \in Range(Len(comp_names) \div 2) :
                     /\ At(comp_names, i * 2) = At(comp_names, i * 2 + 1)
                     /\ At(comp_names, i * 2 + 1) = rule.name
    IN  /\ IF rule.exact THEN quantity = rule.quantity
                         ELSE ~(quantity < rule.quantity)
        /\ ~(rule.axial /\ ~axial)

\* mutant: the test of lines 64-65 looks at the first neighbour only
SimplePlacementRuleCall_first_incomplete_only(rule, comp_names) ==
    IF At(comp_names, 0) = "incomplete"
    THEN TRUE
    ELSE LET quantity == CountName(comp_names, rule.name, Len(comp_names))
             axial == \E i \in Range(Len(comp_names) \div 2) :
                          /\ At(comp_names, i * 2) = At(comp_names, i * 2 + 1)
                          /\ At(comp_names, i * 2 + 1) = rule.name
         IN  /\ IF rule.exact THEN quantity = rule.quantity
                              ELSE ~(quantity < rule.quantity)
             /\ ~(rule.axial /\ ~axial)

\* mutant: the axial test of lines 84-85 is missing
SimplePlacementRuleCall_ignores_axial(rule, comp_names) ==
    IF \E i \in Range(Len(comp_names)) : At(comp_names, i) = "incomplete"
    THEN TRUE
    ELSE LET quantity == CountName(comp_names, rule.name, Len(comp_names))
         IN  IF rule.exact THEN quantity = rule.quantity
                           ELSE ~(quantity < rule.quantity)

SimplePlacementRuleCall(rule, comp_names) ==
    IF \E i \in Range(Len(comp_names)) : At(comp_names, i) = "incomplete"
    THEN TRUE
    ELSE LET quantity == CountName(comp_names, rule.name, Len(comp_names))
             axial == \E i \in Range(Len(comp_names) \div 2) :
                          /\ At(comp_names, i * 2) = At(comp_names, i * 2 + 1)
                          /\ At(comp_names, i * 2 + 1) = rule.name
         IN  /\ IF rule.exact THEN quantity = rule.quantity
                              ELSE ~(quantity < rule.quantity)
             /\ ~(rule.axial /\ ~axial)

RECURSIVE PlacementRuleCall(_, _)
PlacementRuleCall(rule, comp_names) ==
    IF rule.type = "PlacementRule" THEN TRUE
    ELSE IF rule.type = "SimplePlacementRule"
    THEN SimplePlacementRuleCall(rule, comp_names)
    ELSE IF rule.mode = "AND"
    THEN \A k \in 1 .. Len(rule.rules) : PlacementRuleCall(rule.rules[k], comp_names)
    ELSE \E k \in 1 .. Len(rule.rules) : PlacementRuleCall(rule.rules[k], comp_names)

-----------------------------------------------------------------------------
(* Placement rules registered to a CP-SAT model (to_model). What a call     *)
(* gives is the set of the values its returned variable takes in the        *)
(* solutions of the model with comp_ids fixed, or the exception it raises.  *)

BoolStr(b) == IF b THEN "True" ELSE "False"

\* name_to_id[name] of line 94: the last index of the name
NameToId(type_names, name) ==
    CHOOSE i \in Range(Len(type_names)) :
        /\ At(type_names, i) = name
        /\ \A j \in Range(Len(type_names)) : j > i => At(type_names, j) # name

SimplePlacementRuleToModel(rule, type_names, comp_ids) ==
    IF Len(comp_ids) = 0 THEN {"IndexError"}
    ELSE IF \A i \in Range(Len(type_names)) : At(type_names, i) # rule.name
    THEN {"KeyError"}
    \* lines 116-120: "axial and ..." and "axial.Not() or ..." take the truth
    \* value of a solver variable, which the solver library refuses
    \* (NotImplementedError) or, taking the object as true, hands a literal
    \* to model.Add (TypeError)
    ELSE IF rule.axial THEN {"NotImplementedError", "TypeError"}
    ELSE LET target == NameToId(type_names, rule.name)
             \* quantity[-1]: the number of matches[i] that hold
             quantity == Cardinality({i \in Range(Len(comp_ids)) : At(comp_ids, i) = target})
         IN  {BoolStr(IF rule.exact THEN quantity = rule.quantity
                                   ELSE quantity >= rule.quantity)}

RECURSIVE PlacementRuleToModel(_, _, _)
RECURSIVE SatisfiedVars(_, _, _, _)
\* satisfied_vars of lines 162-165 after the first k children: the exception
\* a child raised, or how many of the children's variables are true
SatisfiedVars(rule, type_names, comp_ids, k) ==
    IF k = 0 THEN {[raised |-> "none", total |-> 0]}
    ELSE {IF vars_.raised # "none" THEN vars_
          ELSE IF out \notin {"True", "False"} THEN [raised |-> out, total |-> vars_.total]
          ELSE [raised |-> "none", total |-> vars_.total + (IF out = "True" THEN 1 ELSE 0)] :
              vars_ \in SatisfiedVars(rule, type_names, comp_ids, k - 1),
              out \in PlacementRuleToModel(rule.rules[k], type_names, comp_ids)}

PlacementRuleToModel(rule, type_names, comp_ids) ==
    IF rule.type = "PlacementRule" THEN {"True"}
    ELSE IF rule.type = "SimplePlacementRule"
    THEN SimplePlacementRuleToModel(rule, type_names, comp_ids)
    ELSE {IF satisfied_vars.raised # "none" THEN satisfied_vars.raised
          ELSE IF rule.mode = "AND"
          THEN BoolStr(satisfied_vars.total >= Len(rule.rules))
          ELSE BoolStr(satisfied_vars.total > 0) :
              satisfied_vars \in SatisfiedVars(rule, type_names, comp_ids, Len(rule.rules))}

-----------------------------------------------------------------------------
(* Components and catalogs. *)

Component(name, placement_rule) == [name |-> name, placement_rule |-> placement_rule]

BEARING == Component("bearing", Always)

MAGNESIUM == Component("magnesium",
    Compound(<<Simple("bearing", 1, FALSE, FALSE), Simple("connector", 1, FALSE, FALSE)>>, "OR"))

BERYLLIUM == Component("beryllium", Simple("magnesium", 1, FALSE, FALSE))

ALUMINUM == Component("aluminum", Simple("magnesium", 2, FALSE, FALSE))

GOLD == Component("gold", Simple("aluminum", 1, FALSE, FALSE))

COPPER == Component("copper", Simple("beryllium", 1, FALSE, FALSE))

\* the catalog handed to the designer: four of the coils of DYNAMO_COIL_TYPES
dynamo_coil_types == <<BEARING, MAGNESIUM, BERYLLIUM, ALUMINUM>>

-----------------------------------------------------------------------------
(* core/multi_sequence.py *)

MultiSequence(seq, dims) == [seq |-> seq, dims |-> dims]

RECURSIVE ProdFrom(_, _)
\* math.prod(dims[i:])
ProdFrom(dims, i) ==
    IF i >= Len(dims) THEN 1 ELSE At(dims, i) * ProdFrom(dims, i + 1)

\* mutant: the modulo of line 32 is missing
int_to_tuple_without_modulo(ms, key) ==
    [k \in 1 .. Len(ms.dims) |-> key \div ProdFrom(ms.dims, k)]

int_to_tuple(ms, key) ==
    [k \in 1 .. Len(ms.dims) |->
        (key % ProdFrom(ms.dims, k - 1)) \div ProdFrom(ms.dims, k)]

RECURSIVE SumTerms(_, _, _)
\* sum([key[i] * math.prod(dims[i + 1:]) for i in range(n)])
SumTerms(dims, key, n) ==
    IF n = 0 THEN 0
    ELSE SumTerms(dims, key, n - 1) + At(key, n - 1) * ProdFrom(dims, n)

tuple_to_int(ms, key) == SumTerms(ms.dims, key, Len(ms.dims))

\* Python list indexing: a negative index counts from the end
ListGet(seq, i) ==
    IF 0 <= i /\ i < Len(seq) THEN seq[i + 1]
    ELSE IF -Len(seq) <= i /\ i < 0 THEN seq[Len(seq) + i + 1]
    ELSE IndexError

\* MultiSequence.__getitem__ with a tuple key
GetItem(ms, key) == ListGet(ms.seq, tuple_to_int(ms, key))

-----------------------------------------------------------------------------
(* common/multi_sequence.py *)

RECURSIVE ProdUpTo(_, _)
\* math.prod(dims[:i])
ProdUpTo(dims, i) ==
    IF i = 0 THEN 1 ELSE ProdUpTo(dims, i - 1) * At(dims, i - 1)

RECURSIVE CommonSumTerms(_, _, _)
\* sum([key[i] * math.prod(dims[:i]) for i in range(n)])
CommonSumTerms(dims, key, n) ==
    IF n = 0 THEN 0
    ELSE CommonSumTerms(dims, key, n - 1) + At(key, n - 1) * ProdUpTo(dims, n - 1)

\* MultiSequence.__getitem__ of common/ with a tuple key
CommonGetItem(ms, key) == ListGet(ms.seq, CommonSumTerms(ms.dims, key, Len(ms.dims)))

-----------------------------------------------------------------------------
(* core/constraints.py *)

MaxQuantityConstraint(target_name, max_quantity) ==
    [kind |-> "MaxQuantityConstraint", target_name |-> target_name,
     max_quantity |-> max_quantity]

SymmetryConstraint == [kind |-> "SymmetryConstraint"]

PlacementRuleConstraint == [kind |-> "PlacementRuleConstraint"]

RECURSIVE CountComponents(_, _, _)
\* n after the loop of lines 58-63 over the first k elements
CountComponents(ms, target_name, k) ==
    IF k = 0 THEN 0
    ELSE LET comp == ms.seq[k]
         IN  CountComponents(ms, target_name, k - 1)
             + (IF comp = None THEN 0
                ELSE IF comp.name = target_name THEN 1 ELSE 0)

\* mutant: the cap is off by one
MaxQuantityConstraintCall_off_by_one(c, ms) ==
    CountComponents(ms, c.target_name, Len(ms.seq)) <= c.max_quantity + 1

MaxQuantityConstraintCall(c, ms) ==
    CountComponents(ms, c.target_name, Len(ms.seq)) <= c.max_quantity

\* coords with axis d mirrored (lines 99-102)
Mirror(ms, coords, d) ==
    [k \in 1 .. Len(ms.dims) |->
        IF k - 1 = d THEN At(ms.dims, k - 1) - At(coords, k - 1) - 1
        ELSE At(coords, k - 1)]

\* mutant: an unfilled mirror cell (line 103) ends the whole check with True
SymmetryConstraintCall_stops_at_unfilled_mirror(ms) ==
    LET partner(i, d) == GetItem(ms, Mirror(ms, int_to_tuple(ms, i), d))
        stops == {e \in Range(Len(ms.seq)) \X Range(Len(ms.dims)) :
                     /\ GetItem(ms, int_to_tuple(ms, e[1])) # None
                     /\ \/ partner(e[1], e[2]) = None
                        \/ partner(e[1], e[2]).name # GetItem(ms, int_to_tuple(ms, e[1])).name}
        first == CHOOSE e \in stops :
                     \A f \in stops : e[1] < f[1] \/ (e[1] = f[1] /\ e[2] <= f[2])
    IN  stops = {} \/ partner(first[1], first[2]) = None

SymmetryConstraintCall(ms) ==
    \A i \in Range(Len(ms.seq)) :
        LET coords == int_to_tuple(ms, i)
        IN  GetItem(ms, coords) = None
            \/ \A d \in Range(Len(ms.dims)) :
                   LET coords_ == Mirror(ms, coords, d)
                   IN  GetItem(ms, coords_) = None
                       \/ GetItem(ms, coords).name = GetItem(ms, coords_).name

\* idx moved by delta on axis d (lines 144-147, 152-155)
Shift(ms, idx, d, delta) ==
    [k \in 1 .. Len(ms.dims) |->
        IF k - 1 = d THEN At(idx, k - 1) + delta ELSE At(idx, k - 1)]

NameOrIncomplete(comp) == IF comp = None THEN "incomplete" ELSE comp.name

\* mutant: the +d neighbours of all axes come first, the -d neighbours after them
NeighbourNames_plus_then_minus(ms, idx, d) ==
    [j \in 1 .. 2 * d |->
        LET a == IF j <= d THEN j - 1 ELSE j - d - 1
        IN  IF j <= d
            THEN IF At(idx, a) < At(ms.dims, a) - 1
                 THEN NameOrIncomplete(GetItem(ms, Shift(ms, idx, a, 1)))
                 ELSE "wall"
            ELSE IF At(idx, a) > 0
                 THEN NameOrIncomplete(GetItem(ms, Shift(ms, idx, a, -1)))
                 ELSE "wall"]

RECURSIVE NeighbourNames(_, _, _)
\* comp_names after the loop of lines 142-158 has run for axes 0 .. d-1
NeighbourNames(ms, idx, d) ==
    IF d = 0 THEN <<>>
    ELSE LET a == d - 1
             plus == IF At(idx, a) < At(ms.dims, a) - 1
                     THEN NameOrIncomplete(GetItem(ms, Shift(ms, idx, a, 1)))
                     ELSE "wall"
             minus == IF At(idx, a) > 0
                      THEN NameOrIncomplete(GetItem(ms, Shift(ms, idx, a, -1)))
                      ELSE "wall"
         IN  NeighbourNames(ms, idx, a) \o <<plus, minus>>

PlacementRuleConstraintCall(ms) ==
    \A i \in Range(Len(ms.seq)) :
        LET idx == int_to_tuple(ms, i)
            comp_names == NeighbourNames(ms, idx, Len(ms.dims))
        IN  ~(GetItem(ms, idx) # None
              /\ ~PlacementRuleCall(GetItem(ms, idx).placement_rule, comp_names))

CenteredBearingsConstraint(shaft_width) ==
    [kind |-> "CenteredBearingsConstraint", shaft_width |-> shaft_width]

\* mutant: the even-side branch is missing, every side takes the odd-side bounds
InShaft_odd_bounds_only(c, ms, y, x) ==
    LET mid == (At(ms.dims, 0) - 1) \div 2
        r == (c.shaft_width - 1) \div 2
    IN  /\ mid - r <= x /\ x <= mid + r
        /\ mid - r <= y /\ y <= mid + r

\* mutant: the even-side block reaches shaft_width // 2 cells to either side
InShaft_same_radius_both_sides(c, ms, y, x) ==
    IF At(ms.dims, 0) % 2 # 0
    THEN LET mid == (At(ms.dims, 0) - 1) \div 2
             r == (c.shaft_width - 1) \div 2
         IN  /\ mid - r <= x /\ x <= mid + r
             /\ mid - r <= y /\ y <= mid + r
    ELSE LET mid == At(ms.dims, 0) \div 2 - 1
             r_right == c.shaft_width \div 2
         IN  /\ mid - r_right <= x /\ x <= mid + r_right
             /\ mid - r_right <= y /\ y <= mid + r_right

\* the tests of lines 219 and 230: cell (y, x) lies in the shaft
InShaft(c, ms, y, x) ==
    IF At(ms.dims, 0) % 2 # 0
    THEN LET mid == (At(ms.dims, 0) - 1) \div 2
             r == (c.shaft_width - 1) \div 2
         IN  /\ mid - r <= x /\ x <= mid + r
             /\ mid - r <= y /\ y <= mid + r
    ELSE LET mid == At(ms.dims, 0) \div 2 - 1
             r_left == c.shaft_width \div 2 - 1
             r_right == c.shaft_width \div 2
         IN  /\ mid - r_left <= x /\ x <= mid + r_right
             /\ mid - r_left <= y /\ y <= mid + r_right

CenteredBearingsConstraintCall(c, ms) ==
    \A y \in Range(At(ms.dims, 0)) : \A x \in Range(At(ms.dims, 1)) :
        IF InShaft(c, ms, y, x)
        THEN ~(GetItem(ms, <<y, x>>) # None /\ GetItem(ms, <<y, x>>).name # "bearing")
        ELSE ~(GetItem(ms, <<y, x>>) # None /\ GetItem(ms, <<y, x>>).name = "bearing")

\* common/constraints.py PlacementRuleConstraint.__call__ (lines 142-177) on a
\* layout of no cell or of a rank other than 2 and 3.  The loop body starts
\* with sequence.int_to_tuple(i) (line 144): the MultiSequence of
\* common/multi_sequence.py defines no int_to_tuple, the one of
\* core/multi_sequence.py does; has_int_to_tuple tells which of the two holds
\* the layout.  The branches of lines 145-174 evaluate the rules of
\* common/placement_rule.py on layouts of two and three axes.
CommonPlacementRuleConstraintCall(ms, has_int_to_tuple) ==
    CASE Len(ms.seq) = 0 -> "True"
      [] Len(ms.seq) > 0 /\ ~has_int_to_tuple -> "AttributeError"
      [] Len(ms.seq) > 0 /\ has_int_to_tuple /\ Len(int_to_tuple(ms, 0)) \notin {2, 3}
             -> "NotImplementedError"

\* common/constraints.py PlacementRuleConstraint.apply_to_model (lines 179-233)
\* on the same layouts: the loop starts with the same lookup (line 187) and
\* ends in the same raise (line 233)
CommonPlacementRuleConstraintApplyToModel(ms, has_int_to_tuple) ==
    CASE Len(ms.seq) = 0 -> "None"
      [] Len(ms.seq) > 0 /\ ~has_int_to_tuple -> "AttributeError"
      [] Len(ms.seq) > 0 /\ has_int_to_tuple /\ Len(int_to_tuple(ms, 0)) \notin {2, 3}
             -> "NotImplementedError"

\* common/constraints.py: the same loop, sequence[y, x] read by the MultiSequence
\* of common/
CommonCenteredBearingsConstraintCall(c, ms) ==
    \A y \in Range(At(ms.dims, 0)) : \A x \in Range(At(ms.dims, 1)) :
        IF InShaft(c, ms, y, x)
        THEN ~(CommonGetItem(ms, <<y, x>>) # None
               /\ CommonGetItem(ms, <<y, x>>).name # "bearing")
        ELSE ~(CommonGetItem(ms, <<y, x>>) # None
               /\ CommonGetItem(ms, <<y, x>>).name = "bearing")

\* constraint(sequence) for a constraint of the library
LibraryConstraintCall(c, ms) ==
    IF c.kind = "MaxQuantityConstraint" THEN MaxQuantityConstraintCall(c, ms)
    ELSE IF c.kind = "SymmetryConstraint" THEN SymmetryConstraintCall(ms)
    ELSE IF c.kind = "PlacementRuleConstraint" THEN PlacementRuleConstraintCall(ms)
    ELSE CenteredBearingsConstraintCall(c, ms)

\* MaxQuantityConstraint.to_model: target_id stays -1 when no catalog entry
\* has the target name (lines 73-77); the call registers its constraints and
\* returns None
MaxQuantityConstraintToModel(c, ms, types) ==
    IF Len(ms.seq) = 0 THEN "IndexError" ELSE "None"

\* CenteredBearingsConstraint.to_model: name_to_id["bearing"] (lines 253-262)
CenteredBearingsConstraintToModel(c, ms, types) ==
    IF Len(ms.dims) < 2 THEN "IndexError"
    ELSE IF \A i \in Range(Len(types)) : At(types, i).name # "bearing" THEN "KeyError"
    ELSE "None"

\* constraint.to_model(model, sequence, component_types): what the call
\* returns or raises
LibraryConstraintToModel(c, ms, types) ==
    IF c.kind = "MaxQuantityConstraint" THEN MaxQuantityConstraintToModel(c, ms, types)
    ELSE CenteredBearingsConstraintToModel(c, ms, types)

-----------------------------------------------------------------------------
(* The callables handed to OptimizableSequence.                             *)

\* a caller's own constraint: False exactly on the listed sequences
Callable(rejects) == [kind |-> "callable", rejects |-> rejects]

\* value v of the optimiser's sequence is catalog entry v-1; 0 is an empty cell
IdsToLayout(seq) ==
    MultiSequence(
        [k \in 1 .. Len(seq) |->
            IF seq[k] = 0 THEN None ELSE At(component_types, seq[k] - 1)],
        <<Len(seq)>>)

\* constraint(self.sequence) of line 36
ConstraintCall(c, seq) ==
    IF c.kind = "callable" THEN seq \notin c.rejects
    ELSE \E ms \in {IdsToLayout(seq)} : LibraryConstraintCall(c, ms)

RECURSIVE SumSeq(_, _)
SumSeq(seq, n) == IF n = 0 THEN 0 ELSE SumSeq(seq, n - 1) + seq[n]

\* scoring_func(seq)
ScoringFuncCall(f, seq) ==
    IF f = "sum" THEN SumSeq(seq, Len(seq))
    ELSE IF f = "neg_sum" THEN 0 - SumSeq(seq, Len(seq))
    ELSE IF f = "first" THEN (IF Len(seq) > 0 THEN seq[1] ELSE 0)
    ELSE IF f = "constant" THEN 0
    ELSE NegInf

-----------------------------------------------------------------------------
(* optimizer.py: OptimizableSequence *)

Result(ok, seq) == [ok |-> ok, seq |-> seq]

is_valid(seq) ==
    \A k \in 1 .. Len(constraints) : ConstraintCall(constraints[k], seq)

\* mutant: the loop runs upwards, range(self.length), and stops at the first assigned cell
LastAssigned_upwards(seq) ==
    IF \E i \in Range(length) : At(seq, i) # 0
    THEN CHOOSE i \in Range(length) :
             At(seq, i) # 0 /\ \A j \in Range(length) : j < i => At(seq, j) = 0
    ELSE -1

\* the index the loop of lines 45-46 / 69-70 stops at, -1 when it runs out
LastAssigned(seq) ==
    IF \E i \in Range(length) : At(seq, i) # 0
    THEN CHOOSE i \in Range(length) :
             At(seq, i) # 0 /\ \A j \in Range(length) : j > i => At(seq, j) = 0
    ELSE -1

\* mutant: the loop runs downwards and stops at the last unassigned cell
FirstUnassigned_downwards(seq) ==
    IF \E i \in Range(length) : At(seq, i) = 0
    THEN CHOOSE i \in Range(length) :
             At(seq, i) = 0 /\ \A j \in Range(length) : j > i => At(seq, j) # 0
    ELSE -1

\* the index the loop of lines 58-59 stops at, -1 when it runs out
FirstUnassigned(seq) ==
    IF \E i \in Range(length) : At(seq, i) = 0
    THEN CHOOSE i \in Range(length) :
             At(seq, i) = 0 /\ \A j \in Range(length) : j < i => At(seq, j) # 0
    ELSE -1

\* mutant: the limit test is off by one, the last value is never assigned
advance_stops_early(seq) ==
    LET i == LastAssigned(seq)
    IN  IF i = -1 THEN Result(FALSE, seq)
        ELSE IF At(seq, i) >= max_value - 1 THEN Result(FALSE, seq)
        ELSE Result(TRUE, [seq EXCEPT ![i + 1] = @ + 1])

advance(seq) ==
    LET i == LastAssigned(seq)
    IN  IF i = -1 THEN Result(FALSE, seq)
        ELSE IF At(seq, i) = max_value THEN Result(FALSE, seq)
        ELSE Result(TRUE, [seq EXCEPT ![i + 1] = @ + 1])

next_row(seq) ==
    LET i == FirstUnassigned(seq)
    IN  IF i = -1 THEN Result(FALSE, seq)
        ELSE Result(TRUE, [seq EXCEPT ![i + 1] = 1])

\* In the definitions below `CHOOSE out \in {e : r \in {call}} : TRUE` is e with
\* r the result of the call, the call being made once.

\* mutant: the last cell is unassigned and success returned, advance is not called
prev_row_without_advance(seq) ==
    LET i == LastAssigned(seq)
    IN  IF i = -1 THEN Result(FALSE, seq)
        ELSE Result(TRUE, [seq EXCEPT ![i + 1] = 0])

RECURSIVE prev_row(_)
prev_row(seq) ==
    LET i == LastAssigned(seq)
    IN  IF i = -1 THEN Result(FALSE, seq)
        ELSE CHOOSE out \in {IF adv.ok THEN adv ELSE prev_row(adv.seq) :
                                adv \in {advance([seq EXCEPT ![i + 1] = 0])}} : TRUE

\* self.advance() or self.prev_row()
advance_or_prev_row(seq) ==
    CHOOSE out \in {IF adv.ok THEN adv ELSE prev_row(adv.seq) :
                       adv \in {advance(seq)}} : TRUE

\* mutant: next_row is attempted whether the sequence is valid or not
next_sequence_always_extends(seq) ==
    CHOOSE out \in {IF row.ok THEN row ELSE advance_or_prev_row(row.seq) :
                       row \in {next_row(seq)}} : TRUE

next_sequence(seq) ==
    IF is_valid(seq)
    THEN CHOOSE out \in {IF row.ok THEN row ELSE advance_or_prev_row(row.seq) :
                            row \in {next_row(seq)}} : TRUE
    ELSE advance_or_prev_row(seq)

\* a cell beyond the model's cap on cell values
OverCap(seq) == \E k \in 1 .. Len(seq) : seq[k] > CellCap

RECURSIVE next_valid_sequence(_)

\* mutant: line 95 returns True, the exhausted search reports one more state
next_valid_sequence_never_fails(seq) ==
    CHOOSE out \in
        {IF ~r.ok THEN [ok |-> TRUE, seq |-> r.seq, capped |-> FALSE]
         ELSE IF OverCap(r.seq) THEN [ok |-> FALSE, seq |-> r.seq, capped |-> TRUE]
         ELSE IF is_valid(r.seq) THEN [ok |-> TRUE, seq |-> r.seq, capped |-> FALSE]
         ELSE next_valid_sequence(r.seq) : r \in {next_sequence(seq)}} : TRUE

\* mutant: the test of line 96 is missing, every candidate is reported
next_valid_sequence_skips_is_valid(seq) ==
    CHOOSE out \in
        {IF ~r.ok THEN [ok |-> FALSE, seq |-> r.seq, capped |-> FALSE]
         ELSE IF OverCap(r.seq) THEN [ok |-> FALSE, seq |-> r.seq, capped |-> TRUE]
         ELSE [ok |-> TRUE, seq |-> r.seq, capped |-> FALSE] :
             r \in {next_sequence(seq)}} : TRUE

\* capped: the loop was still running when a cell passed CellCap
next_valid_sequence(seq) ==
    CHOOSE out \in
        {IF ~r.ok THEN [ok |-> FALSE, seq |-> r.seq, capped |-> FALSE]
         ELSE IF OverCap(r.seq) THEN [ok |-> FALSE, seq |-> r.seq, capped |-> TRUE]
         ELSE IF is_valid(r.seq) THEN [ok |-> TRUE, seq |-> r.seq, capped |-> FALSE]
         ELSE next_valid_sequence(r.seq) : r \in {next_sequence(seq)}} : TRUE

\* mutant: one assigned cell is taken for a complete sequence
is_complete_any(seq) == \E k \in 1 .. Len(seq) : seq[k] # 0

is_complete(seq) == \A k \in 1 .. Len(seq) : seq[k] # 0

score(seq) == ScoringFuncCall(scoring_func, seq)

-----------------------------------------------------------------------------
(* The inputs of the constructor. *)

\* the sequences with `filled` assigned cells followed by unassigned ones
PrefixSeqsOf(len, maxv, filled) ==
    {[k \in 1 .. len |-> IF k <= filled THEN p[k] ELSE 0] :
        p \in [1 .. filled -> 1 .. maxv]}

PrefixSeqs(len, maxv) ==
    UNION {PrefixSeqsOf(len, maxv, filled) : filled \in 0 .. len}

LibraryConstraints(maxv) ==
    IF maxv = 0 THEN {}
    ELSE {MaxQuantityConstraint(At(dynamo_coil_types, t).name, k) :
              t \in Range(maxv), k \in 0 .. MaxQuantityCap}
         \cup {SymmetryConstraint, PlacementRuleConstraint}

\* no constraint, one constraint (of the library or the caller's own), or two
\* constraints of the library
ConstraintLists(len, maxv) ==
    {<<>>}
    \cup {<<c>> : c \in LibraryConstraints(maxv)}
    \cup {<<Callable({p})>> : p \in PrefixSeqs(len, maxv)}
    \cup {<<c, d>> : c, d \in LibraryConstraints(maxv)}

ScoringFuncs == {"sum", "neg_sum", "first", "constant", "neg_inf"}


\* OptimizableSequence.__init__ (lines 23-28)
InitObject(funcs) ==
    /\ length \in 0 .. MaxLen
    /\ max_value \in 0 .. MaxValue
    /\ constraints \in ConstraintLists(length, max_value)
    /\ scoring_func \in funcs
    /\ component_types = SubSeq(dynamo_coil_types, 1, max_value)
    /\ sequence = [k \in 1 .. length |-> 0]
    /\ call = "none"
    /\ ret = "none"
    /\ visited = <<>>
    /\ pc = "idle"
    /\ opt_seq = None
    /\ opt_score = NegInf
    /\ score_calls = {}
    /\ layout = None
    /\ rule_self = None
    /\ rule_args = <<>>
    /\ index_key = None

config == <<length, max_value, constraints, scoring_func, component_types>>

optimize_locals == <<pc, opt_seq, opt_score, score_calls>>

-----------------------------------------------------------------------------
(* SpecEnum: a caller that keeps calling next_valid_sequence.               *)

CallNextValidSequence ==
    \E r \in {next_valid_sequence(sequence)} :
    LET pass == IF ret = "False" THEN <<>> ELSE visited
    IN  /\ ~r.capped
        /\ sequence' = r.seq
        /\ call' = "next_valid_sequence"
        /\ ret' = BoolStr(r.ok)
        /\ visited' = IF r.ok /\ is_complete(r.seq) THEN Append(pass, r.seq) ELSE pass
        /\ UNCHANGED <<config, optimize_locals, layout, rule_self, rule_args, index_key>>

InitEnum == InitObject({"constant"})

NextEnum == CallNextValidSequence

SpecEnum == InitEnum /\ [][NextEnum]_vars

-----------------------------------------------------------------------------
(* SpecCalls: a caller that calls advance, next_row, prev_row,              *)
(* next_sequence and next_valid_sequence in any order.                      *)

\* no constraint, or one constraint, of the library or the caller's own
SingleConstraintLists(len, maxv) ==
    {<<>>}
    \cup {<<c>> : c \in LibraryConstraints(maxv)}
    \cup {<<Callable({p})>> : p \in PrefixSeqs(len, maxv)}

InitCalls ==
    /\ length \in 0 .. MaxLen
    /\ max_value \in 0 .. MaxValue
    /\ constraints \in SingleConstraintLists(length, max_value)
    /\ scoring_func = "constant"
    /\ component_types = SubSeq(dynamo_coil_types, 1, max_value)
    /\ sequence = [k \in 1 .. length |-> 0]
    /\ call = "none"
    /\ ret = "none"
    /\ visited = <<>>
    /\ pc = "idle"
    /\ opt_seq = None
    /\ opt_score = NegInf
    /\ score_calls = {}
    /\ layout = None
    /\ rule_self = None
    /\ rule_args = <<>>
    /\ index_key = None

\* what every call of the caller leaves alone
calls_frame == <<config, visited, optimize_locals, layout, rule_self, rule_args, index_key>>

CallAdvance ==
    \E r \in {advance(sequence)} :
        /\ ~OverCap(r.seq)
        /\ sequence' = r.seq
        /\ call' = "advance"
        /\ ret' = BoolStr(r.ok)
        /\ UNCHANGED calls_frame

CallNextRow ==
    \E r \in {next_row(sequence)} :
        /\ ~OverCap(r.seq)
        /\ sequence' = r.seq
        /\ call' = "next_row"
        /\ ret' = BoolStr(r.ok)
        /\ UNCHANGED calls_frame

CallPrevRow ==
    \E r \in {prev_row(sequence)} :
        /\ ~OverCap(r.seq)
        /\ sequence' = r.seq
        /\ call' = "prev_row"
        /\ ret' = BoolStr(r.ok)
        /\ UNCHANGED calls_frame

CallNextSequence ==
    \E r \in {next_sequence(sequence)} :
        /\ ~OverCap(r.seq)
        /\ sequence' = r.seq
        /\ call' = "next_sequence"
        /\ ret' = BoolStr(r.ok)
        /\ UNCHANGED calls_frame

\* next_valid_sequence, by a caller that keeps no list of the states reached
CallNextValid ==
    \E r \in {next_valid_sequence(sequence)} :
        /\ ~r.capped
        /\ sequence' = r.seq
        /\ call' = "next_valid_sequence"
        /\ ret' = BoolStr(r.ok)
        /\ UNCHANGED calls_frame

NextCalls == CallAdvance \/ CallNextRow \/ CallPrevRow \/ CallNextSequence \/ CallNextValid

SpecCalls == InitCalls /\ [][NextCalls]_vars

-----------------------------------------------------------------------------
(* SpecSearch: a caller that steps the search with next_sequence and        *)
(* next_valid_sequence only.                                                *)

NextSearch == CallNextSequence \/ CallNextValid

SpecSearch == InitCalls /\ [][NextSearch]_vars

-----------------------------------------------------------------------------
(* SpecOpt: one call of optimize, one step per iteration of its loop.       *)

\* copy.deepcopy(self.sequence) held in opt_seq
Some(seq) == [none |-> FALSE, value |-> seq]

\* mutant: every complete state replaces the retained one
Improves_always(seq, best) == TRUE

\* mutant: an equal score replaces the retained layout too
Improves_or_equal(seq, best) == score(seq) >= best

\* the test of line 125 on a complete state
Improves(seq, best) == score(seq) > best

\* `if opt_seq:` -- None and the empty list are both false
Truthy(opt) == opt # None /\ Len(opt.value) > 0

\* lines 121-122
optimize_enter ==
    /\ pc = "idle"
    /\ pc' = "loop"
    /\ opt_seq' = None
    /\ opt_score' = NegInf
    /\ call' = "optimize"
    /\ UNCHANGED <<config, sequence, ret, visited, score_calls, layout, rule_self, rule_args, index_key>>

\* lines 124-127: next_valid_sequence() returned True
optimize_iterate ==
    /\ pc = "loop"
    /\ \E r \in {next_valid_sequence(sequence)} :
        /\ ~r.capped
        /\ r.ok
        /\ sequence' = r.seq
        /\ score_calls' = IF is_complete(r.seq) THEN score_calls \cup {r.seq}
                          ELSE score_calls
        /\ IF is_complete(r.seq) /\ Improves(r.seq, opt_score)
           THEN opt_seq' = Some(r.seq) /\ opt_score' = score(r.seq)
           ELSE UNCHANGED <<opt_seq, opt_score>>
        /\ UNCHANGED <<config, call, ret, visited, pc, layout, rule_self, rule_args, index_key>>

\* lines 124, 129-132: next_valid_sequence() returned False
optimize_exit ==
    /\ pc = "loop"
    /\ \E r \in {next_valid_sequence(sequence)} :
        /\ ~r.capped
        /\ ~r.ok
        /\ pc' = "done"
        /\ IF Truthy(opt_seq)
           THEN sequence' = opt_seq.value /\ ret' = "True"
           ELSE sequence' = r.seq /\ ret' = "False"
        /\ UNCHANGED <<config, call, visited, opt_seq, opt_score, score_calls, layout, rule_self, rule_args, index_key>>

InitOpt == InitObject(ScoringFuncs)

NextOpt == optimize_enter \/ optimize_iterate \/ optimize_exit

SpecOpt == InitOpt /\ [][NextOpt]_vars

\* the caller runs optimize to its end: no step of it is postponed forever
SpecOptFair == SpecOpt /\ WF_vars(NextOpt)

-----------------------------------------------------------------------------
(* SpecLayout: a caller that fills a layout cell by cell and calls one      *)
(* constraint of the library on it.                                         *)

Cells(dims) == ProdFrom(dims, 0)

\* one axis or two, at most MaxCells cells
Shapes ==
    {<<n>> : n \in 1 .. MaxCells}
    \cup {d \in (1 .. MaxCells) \X (1 .. MaxCells) : d[1] * d[2] <= MaxCells}

EmptyLayout(dims) == MultiSequence([k \in 1 .. Cells(dims) |-> None], dims)

LayoutConstraints ==
    {MaxQuantityConstraint(At(dynamo_coil_types, t).name, k) :
         t \in Range(Len(dynamo_coil_types)), k \in 0 .. MaxQuantityCap}
    \cup {SymmetryConstraint, PlacementRuleConstraint}
    \cup {CenteredBearingsConstraint(sw) : sw \in 1 .. MaxSide}

\* what the call gives back: range(sequence.dims[1]) raises on a one-axis layout
LayoutVerdict(c, ms) ==
    IF c.kind = "CenteredBearingsConstraint" /\ Len(ms.dims) < 2 THEN "IndexError"
    ELSE BoolStr(LibraryConstraintCall(c, ms))

\* no optimiser takes part
NoOptimizer ==
    /\ length = 0
    /\ max_value = 0
    /\ scoring_func = "constant"
    /\ sequence = <<>>
    /\ visited = <<>>
    /\ pc = "idle"
    /\ opt_seq = None
    /\ opt_score = NegInf
    /\ score_calls = {}

optimizer_state ==
    <<length, max_value, scoring_func, sequence, visited, pc, opt_seq, opt_score, score_calls>>

\* no placement rule and no method of MultiSequence is called on its own
NoRuleCall ==
    /\ rule_self = None
    /\ rule_args = <<>>
    /\ index_key = None

InitLayout ==
    /\ NoOptimizer
    /\ NoRuleCall
    /\ component_types = dynamo_coil_types
    /\ constraints \in {<<c>> : c \in LayoutConstraints}
    /\ layout \in {EmptyLayout(dims) : dims \in Shapes}
    /\ call = "none"
    /\ ret = "none"

\* the caller assigns one empty cell
FillCell ==
    \E i \in 1 .. Len(layout.seq) : \E t \in Range(Len(component_types)) :
        /\ layout.seq[i] = None
        /\ layout' = [layout EXCEPT !.seq[i] = At(component_types, t)]
        /\ call' = "fill"
        /\ ret' = "none"
        /\ UNCHANGED <<optimizer_state, rule_self, rule_args, index_key, component_types, constraints>>

\* constraint(layout)
CallConstraint ==
    /\ ret = "none"
    /\ call' = "constraint"
    /\ ret' = LayoutVerdict(constraints[1], layout)
    /\ UNCHANGED <<optimizer_state, rule_self, rule_args, index_key, component_types, constraints, layout>>

NextLayout == FillCell \/ CallConstraint

SpecLayout == InitLayout /\ [][NextLayout]_vars

-----------------------------------------------------------------------------
(* SpecCentered: CenteredBearingsConstraint called on complete square       *)
(* layouts of bearings and magnesium coils.                                 *)

\* the complete side x side layouts whose cells are named "bearing" or "magnesium"
CompleteSquares(side) ==
    {MultiSequence(cells, <<side, side>>) :
         cells \in [1 .. side * side -> {BEARING, MAGNESIUM}]}

InitCentered ==
    /\ NoOptimizer
    /\ NoRuleCall
    /\ component_types = <<BEARING, MAGNESIUM>>
    /\ \E side \in 1 .. MaxSide :
           /\ layout \in CompleteSquares(side)
           /\ constraints \in {<<CenteredBearingsConstraint(sw)>> : sw \in 1 .. side}
    /\ call = "none"
    /\ ret = "none"

\* core/constraints.py: CenteredBearingsConstraint(shaft_width)(layout)
CallCenteredBearings ==
    /\ call' = "core"
    /\ ret' = BoolStr(CenteredBearingsConstraintCall(constraints[1], layout))
    /\ UNCHANGED <<optimizer_state, rule_self, rule_args, index_key, component_types, constraints, layout>>

\* common/constraints.py: CenteredBearingsConstraint(shaft_width)(layout)
CallCommonCenteredBearings ==
    /\ call' = "common"
    /\ ret' = BoolStr(CommonCenteredBearingsConstraintCall(constraints[1], layout))
    /\ UNCHANGED <<optimizer_state, rule_self, rule_args, index_key, component_types, constraints, layout>>

NextCentered == CallCenteredBearings \/ CallCommonCenteredBearings

SpecCentered == InitCentered /\ [][NextCentered]_vars

-----------------------------------------------------------------------------
(* SpecShaft: CenteredBearingsConstraint called on square layouts with at   *)
(* most one cell filled.                                                    *)

InitShaft ==
    /\ NoOptimizer
    /\ NoRuleCall
    /\ component_types = <<BEARING, MAGNESIUM>>
    /\ \E side \in 1 .. MaxShaftSide :
           /\ layout = EmptyLayout(<<side, side>>)
           /\ constraints \in {<<CenteredBearingsConstraint(sw)>> : sw \in 1 .. side}
    /\ call = "none"
    /\ ret = "none"

\* the caller assigns the first cell of an empty layout
FillFirstCell ==
    /\ \A i \in 1 .. Len(layout.seq) : layout.seq[i] = None
    /\ FillCell

NextShaft == FillFirstCell \/ CallCenteredBearings

SpecShaft == InitShaft /\ [][NextShaft]_vars

-----------------------------------------------------------------------------
(* SpecPlacement: a caller that fills a layout of one, two or three axes    *)
(* from a catalog with an axial rule and calls PlacementRuleConstraint or   *)
(* SymmetryConstraint.                                                      *)

\* a component that needs two bearings facing each other
AXIAL_COIL == Component("axial", Simple("bearing", 2, FALSE, TRUE))

PlacementShapes ==
    {dims \in UNION {[1 .. D -> 1 .. MaxCells] : D \in 1 .. MaxLayoutRank} :
         Cells(dims) <= MaxCells}

InitPlacement ==
    /\ NoOptimizer
    /\ NoRuleCall
    /\ component_types = <<BEARING, MAGNESIUM, AXIAL_COIL>>
    /\ constraints \in {<<PlacementRuleConstraint>>, <<SymmetryConstraint>>}
    /\ layout \in {EmptyLayout(dims) : dims \in PlacementShapes}
    /\ call = "none"
    /\ ret = "none"

SpecPlacement == InitPlacement /\ [][NextLayout]_vars

-----------------------------------------------------------------------------
(* SpecLegacy: the PlacementRuleConstraint of common/ checked on, and       *)
(* applied to, layouts of no cell or of a rank it does not support, held in *)
(* the MultiSequence of common/ or in the one of core/.                     *)

LegacyShapes ==
    {dims \in UNION {[1 .. D -> 0 .. MaxCells] : D \in 0 .. MaxLayoutRank + 1} :
         /\ Cells(dims) <= MaxCells
         /\ Cells(dims) = 0 \/ Len(dims) \notin {2, 3}}

InitLegacy ==
    /\ NoOptimizer
    /\ NoRuleCall
    /\ component_types = <<BEARING, MAGNESIUM>>
    /\ constraints = <<PlacementRuleConstraint>>
    /\ layout \in {EmptyLayout(dims) : dims \in LegacyShapes}
    /\ call = "none"
    /\ ret = "none"

legacy_frame ==
    <<optimizer_state, rule_self, rule_args, index_key, component_types, constraints, layout>>

\* PlacementRuleConstraint()(layout), layout a MultiSequence of common/
CallCommonPlacementRule ==
    /\ call' = "common_check"
    /\ ret' = CommonPlacementRuleConstraintCall(layout, FALSE)
    /\ UNCHANGED legacy_frame

\* PlacementRuleConstraint().apply_to_model(model, layout, component_types),
\* layout a MultiSequence of common/
CallCommonPlacementRuleApply ==
    /\ call' = "common_apply"
    /\ ret' = CommonPlacementRuleConstraintApplyToModel(layout, FALSE)
    /\ UNCHANGED legacy_frame

\* the same two calls, layout a MultiSequence of core/
CallCommonPlacementRuleOnCore ==
    /\ call' = "common_check_on_core"
    /\ ret' = CommonPlacementRuleConstraintCall(layout, TRUE)
    /\ UNCHANGED legacy_frame

CallCommonPlacementRuleApplyOnCore ==
    /\ call' = "common_apply_on_core"
    /\ ret' = CommonPlacementRuleConstraintApplyToModel(layout, TRUE)
    /\ UNCHANGED legacy_frame

NextLegacy ==
    \/ FillCell
    \/ CallCommonPlacementRule
    \/ CallCommonPlacementRuleApply
    \/ CallCommonPlacementRuleOnCore
    \/ CallCommonPlacementRuleApplyOnCore

SpecLegacy == InitLegacy /\ [][NextLegacy]_vars

-----------------------------------------------------------------------------
(* SpecIndex: the index maps and the lookups of MultiSequence, core and     *)
(* common, called with an integer key or a tuple key.                       *)

\* the element stored at flat index i
Cell(i) == [flat |-> i]

IntKey(i) == [int |-> i]

TupleKey(t) == [tuple |-> t]

\* isinstance(key, int)
IsInt(k) == "int" \in DOMAIN k

IndexShapes ==
    {dims \in UNION {[1 .. D -> 1 .. MaxIndexCells] : D \in 1 .. MaxLayoutRank} :
         Cells(dims) <= MaxIndexCells}

\* the flat indices, and the tuples with every coordinate from one below the
\* grid to one above it
Keys(dims) ==
    {IntKey(i) : i \in Range(Cells(dims))}
    \cup {TupleKey(t) : t \in {u \in [1 .. Len(dims) -> -1 .. MaxIndexCells] :
                                   \A k \in 1 .. Len(dims) : u[k] <= dims[k]}}

InitIndex ==
    /\ NoOptimizer
    /\ rule_self = None
    /\ rule_args = <<>>
    /\ component_types = <<>>
    /\ constraints = <<>>
    /\ \E dims \in IndexShapes :
           /\ layout = MultiSequence([k \in 1 .. Cells(dims) |-> Cell(k - 1)], dims)
           /\ index_key \in Keys(dims)
    /\ call = "none"
    /\ ret = "none"

\* sequence.int_to_tuple(key)
CallIntToTuple ==
    /\ IsInt(index_key)
    /\ call' = "int_to_tuple"
    /\ ret' = int_to_tuple(layout, index_key.int)
    /\ UNCHANGED <<optimizer_state, rule_self, rule_args, index_key, component_types, constraints, layout>>

\* sequence.tuple_to_int(key)
CallTupleToInt ==
    /\ ~IsInt(index_key)
    /\ call' = "tuple_to_int"
    /\ ret' = tuple_to_int(layout, index_key.tuple)
    /\ UNCHANGED <<optimizer_state, rule_self, rule_args, index_key, component_types, constraints, layout>>

\* sequence[key] of core/multi_sequence.py
CallGetItem ==
    /\ call' = "getitem"
    /\ ret' = IF IsInt(index_key) THEN ListGet(layout.seq, index_key.int)
              ELSE GetItem(layout, index_key.tuple)
    /\ UNCHANGED <<optimizer_state, rule_self, rule_args, index_key, component_types, constraints, layout>>

\* sequence[key] of common/multi_sequence.py
CallCommonGetItem ==
    /\ call' = "common_getitem"
    /\ ret' = IF IsInt(index_key) THEN ListGet(layout.seq, index_key.int)
              ELSE CommonGetItem(layout, index_key.tuple)
    /\ UNCHANGED <<optimizer_state, rule_self, rule_args, index_key, component_types, constraints, layout>>

NextIndex == CallIntToTuple \/ CallTupleToInt \/ CallGetItem \/ CallCommonGetItem

SpecIndex == InitIndex /\ [][NextIndex]_vars

-----------------------------------------------------------------------------
(* SpecRule: a placement rule called on a tuple of neighbour names.         *)

RuleNames == {"gold", "copper"}

SimpleRules ==
    {Simple(name, quantity, exact, axial) :
         name \in RuleNames, quantity \in 0 .. MaxRuleQuantity,
         exact \in BOOLEAN, axial \in BOOLEAN}

\* the rules a compound rule of the model is built from
CompoundLeaves == {Always, Simple("gold", 1, FALSE, TRUE)}

\* compound rules of no child, one child or two children, and compound rules
\* with such a rule as their first child
CompoundRules ==
    LET inner == {Compound(rules, mode) :
                      rules \in {<<>>} \cup {<<a>> : a \in CompoundLeaves}
                                     \cup {<<a, b>> : a, b \in CompoundLeaves},
                      mode \in {"AND", "OR"}}
    IN  inner
        \cup {Compound(rules, mode) :
                  rules \in {<<a>> : a \in inner}
                               \cup {<<a, b>> : a \in inner, b \in CompoundLeaves},
                  mode \in {"AND", "OR"}}

Rules == {Always} \cup SimpleRules \cup CompoundRules

\* (+x, -x, +y, -y, ...) for 1 .. MaxRank axes
NeighbourTuples ==
    UNION {[1 .. 2 * D -> RuleNames \cup {"wall", "incomplete"}] : D \in 1 .. MaxRank}

InitRule ==
    /\ NoOptimizer
    /\ layout = None
    /\ constraints = <<>>
    /\ component_types = <<GOLD, COPPER>>
    /\ rule_self \in Rules
    /\ rule_args \in NeighbourTuples
    /\ index_key = None
    /\ call = "none"
    /\ ret = "none"

\* rule(comp_names)
CallRule ==
    /\ call' = "rule"
    /\ ret' = BoolStr(PlacementRuleCall(rule_self, rule_args))
    /\ UNCHANGED <<optimizer_state, rule_self, rule_args, index_key, component_types, constraints, layout>>

NextRule == CallRule

SpecRule == InitRule /\ [][NextRule]_vars

-----------------------------------------------------------------------------
(* SpecToModel: a placement rule registered to a CP-SAT model whose         *)
(* neighbour variables are fixed to catalog ids and walls (-1).             *)

\* [comp.name for comp in component_types]
TypeNames == [k \in 1 .. Len(component_types) |-> component_types[k].name]

IdTuples ==
    UNION {[1 .. 2 * D -> -1 .. Len(<<GOLD, COPPER>>) - 1] : D \in 1 .. MaxRank}

InitToModel ==
    /\ NoOptimizer
    /\ layout = None
    /\ constraints = <<>>
    /\ component_types = <<GOLD, COPPER>>
    /\ rule_self \in Rules
    /\ rule_args \in IdTuples
    /\ index_key = None
    /\ call = "none"
    /\ ret = "none"

\* rule.to_model(model, type_names, comp_ids), then a solution of the model
CallToModel ==
    /\ call' = "to_model"
    /\ ret' \in PlacementRuleToModel(rule_self, TypeNames, rule_args)
    /\ UNCHANGED <<optimizer_state, rule_self, rule_args, index_key, component_types, constraints, layout>>

NextToModel == CallToModel

SpecToModel == InitToModel /\ [][NextToModel]_vars

-----------------------------------------------------------------------------
(* SpecUnknownName: constraints and rules that name a component, called and *)
(* registered to a model over a catalog that may lack the name.             *)

\* catalogs with and without "bearing"; neither has "gold"
SmallCatalogs == {<<BEARING, MAGNESIUM>>, <<MAGNESIUM, BERYLLIUM>>}

NamingConstraints ==
    {MaxQuantityConstraint(name, k) :
         name \in {"magnesium", "gold"}, k \in 0 .. MaxQuantityCap}
    \cup {CenteredBearingsConstraint(sw) : sw \in 1 .. 2}

NamingRules == {Simple(name, 1, FALSE, FALSE) : name \in {"magnesium", "gold"}}

InitUnknownName ==
    /\ NoOptimizer
    /\ index_key = None
    /\ component_types \in SmallCatalogs
    /\ \/ /\ constraints \in {<<c>> : c \in NamingConstraints}
          /\ layout \in {EmptyLayout(dims) : dims \in Shapes}
          /\ rule_self = None
          /\ rule_args = <<>>
       \/ /\ constraints = <<>>
          /\ layout = None
          /\ rule_self \in NamingRules
          /\ rule_args \in [1 .. 2 -> -1 .. 1]
    /\ call = "none"
    /\ ret = "none"

\* constraint.to_model(model, sequence, component_types)
CallConstraintToModel ==
    /\ call' = "constraint_to_model"
    /\ ret' = LibraryConstraintToModel(constraints[1], layout, component_types)
    /\ UNCHANGED <<optimizer_state, rule_self, rule_args, index_key, component_types, constraints, layout>>

NextUnknownName ==
    \/ constraints # <<>> /\ FillCell
    \/ constraints # <<>> /\ CallConstraint
    \/ constraints # <<>> /\ CallConstraintToModel
    \/ rule_self # None /\ CallToModel

SpecUnknownName == InitUnknownName /\ [][NextUnknownName]_vars

-----------------------------------------------------------------------------
(* The vocabulary of the properties of the optimiser.                       *)

\* (1..max_value)^length
CompleteSeqs == [1 .. length -> 1 .. max_value]

CompleteValid == {s \in CompleteSeqs : is_valid(s)}

\* seq cut back to its first k cells
Truncate(seq, k) == [j \in 1 .. Len(seq) |-> IF j <= k THEN seq[j] ELSE 0]

\* a violated partial sequence stays violated under every extension: each
\* valid (partial or complete) sequence has only valid truncations
PrefixMonotone ==
    \A q \in PrefixSeqs(length, max_value) :
        is_valid(q) => \A k \in 0 .. length : is_valid(Truncate(q, k))

\* strict lexicographic order, position 0 most significant
LexLess(a, b) ==
    \E k \in 1 .. Len(a) : a[k] < b[k] /\ \A j \in 1 .. (k - 1) : a[j] = b[j]

Occurrences(list, x) == Cardinality({k \in 1 .. Len(list) : list[k] = x})

-----------------------------------------------------------------------------
(* Properties of SpecEnum.                                                  *)

\* C1: when next_valid_sequence returns failure after a run of calls from the
\* all-unassigned state (length >= 1, max_value >= 1, prefix-monotone
\* constraints), every complete valid sequence has been the state after exactly
\* one successful call, and nothing else complete has been.
C1_EveryValidSequenceVisitedOnce ==
    (ret = "False" /\ length >= 1 /\ max_value >= 1 /\ PrefixMonotone)
        => /\ \A c \in CompleteValid : Occurrences(visited, c) = 1
           /\ \A k \in 1 .. Len(visited) : visited[k] \in CompleteValid

C1_Witness ==
    /\ ret = "False" /\ length >= 2 /\ max_value >= 2 /\ PrefixMonotone
    /\ constraints # <<>>
    /\ Len(visited) >= 2
    /\ Cardinality(CompleteValid) < Cardinality(CompleteSeqs)

C7_FailureIsFinal == [][ret = "False" => ret' = "False"]_vars

-----------------------------------------------------------------------------
(* Properties of SpecOpt.                                                   *)

\* C2: when optimize returns True under prefix-monotone constraints, the
\* sequence is complete, valid, and scores at least as much as every complete
\* valid sequence.
C2_OptimizeReturnsAnOptimum ==
    (pc = "done" /\ ret = "True" /\ PrefixMonotone)
        => /\ is_complete(sequence)
           /\ sequence \in CompleteValid
           /\ \A c \in CompleteValid : score(sequence) >= score(c)

C2_Witness ==
    /\ pc = "done" /\ ret = "True" /\ PrefixMonotone
    /\ \E c \in CompleteValid : score(c) < score(sequence)
    /\ \E d \in CompleteSeqs \ CompleteValid : score(d) > score(sequence)

\* C3: the retained layout and score change only together, to the current
\* complete valid state, and only when its score is strictly greater than the
\* score retained before.
C3_RetainedScoreStrictlyIncreases ==
    [][(opt_seq' # opt_seq \/ opt_score' # opt_score)
          => /\ is_complete(sequence') /\ is_valid(sequence')
             /\ opt_seq' = Some(sequence')
             /\ opt_score' = score(sequence')
             /\ opt_score' > opt_score]_vars

\* a better layout has replaced a retained one, and the current complete state,
\* which does not score more, has not
C3_Witness ==
    /\ pc = "loop" /\ opt_seq # None
    /\ \E s \in score_calls : NegInf < score(s) /\ score(s) < opt_score
    /\ is_complete(sequence) /\ opt_seq.value # sequence
    /\ score(sequence) <= opt_score

\* C4 (as claimed): optimize returns False exactly when no complete sequence
\* satisfies all constraints.
C4_FalseIffInfeasible ==
    pc = "done" => (ret = "False" <=> CompleteValid = {})

\* C4 (amended): the same for length >= 1, max_value >= 1, prefix-monotone
\* constraints and a scoring function above -inf on the complete valid sequences.
C4_FalseIffInfeasibleAmended ==
    (/\ pc = "done" /\ length >= 1 /\ max_value >= 1 /\ PrefixMonotone
     /\ \A c \in CompleteValid : score(c) > NegInf)
        => (ret = "False" <=> CompleteValid = {})

C4_Witness ==
    /\ pc = "done" /\ ret = "False" /\ length >= 2 /\ max_value >= 2
    /\ PrefixMonotone /\ CompleteValid = {}
    /\ \E q \in PrefixSeqs(length, max_value) : q # sequence /\ is_valid(q)

\* C6: for max_value >= 1 and any constraints, optimize comes to its end: the
\* calls of next_valid_sequence it makes from the all-unassigned state reach the
\* one that returns failure.
C6_OptimizeTerminates == (max_value >= 1) => <>(pc = "done")

C6_Witness ==
    /\ pc = "done" /\ length >= 3 /\ max_value >= 2 /\ ~PrefixMonotone
    /\ Cardinality(score_calls) >= 2

\* the number of assigned cells of seq whose component is named target_name
NamedCells(seq, target_name) ==
    Cardinality({k \in 1 .. Len(seq) :
        seq[k] # 0 /\ At(component_types, seq[k] - 1).name = target_name})

\* C9: MaxQuantityConstraint(T, K) is True on a partial or complete layout
\* exactly when at most K of its filled cells are named T, and no state of a
\* run of the optimiser with that constraint (the states its successful calls
\* of next_valid_sequence reach, and the sequence optimize returns) holds more
\* than K cells named T.
C9_MaxQuantityCapsAcceptedLayouts ==
    \A k \in 1 .. Len(constraints) :
        constraints[k].kind = "MaxQuantityConstraint" =>
            /\ \A q \in [1 .. length -> 0 .. max_value] :
                   MaxQuantityConstraintCall(constraints[k], IdsToLayout(q))
                       <=> NamedCells(q, constraints[k].target_name)
                               <= constraints[k].max_quantity
            /\ NamedCells(sequence, constraints[k].target_name)
                   <= constraints[k].max_quantity

\* optimize has returned a layout that holds exactly K >= 1 cells named T, and a
\* better-scoring complete layout with more of them was turned down
C9_Witness ==
    /\ pc = "done" /\ ret = "True" /\ is_complete(sequence)
    /\ \E k \in 1 .. Len(constraints) :
           /\ constraints[k].kind = "MaxQuantityConstraint"
           /\ constraints[k].max_quantity >= 1
           /\ NamedCells(sequence, constraints[k].target_name)
                  = constraints[k].max_quantity
           /\ \E d \in CompleteSeqs :
                  /\ NamedCells(d, constraints[k].target_name)
                         > constraints[k].max_quantity
                  /\ score(d) > score(sequence)

-----------------------------------------------------------------------------
(* Properties of SpecLayout.                                                *)

\* C8: when a constraint of the library (MaxQuantityConstraint,
\* SymmetryConstraint, PlacementRuleConstraint, CenteredBearingsConstraint) is
\* False on a partial layout, it is False on the layout with one more empty
\* cell filled, and so on every layout reached by filling empty cells only.
C8_PruningIsSound ==
    [][(LayoutVerdict(constraints[1], layout) = "False" /\ layout' # layout)
          => LayoutVerdict(constraints[1], layout') = "False"]_vars

\* a placement rule has been found violated on a partial layout that was
\* already violating it with one cell fewer filled
C8_Witness ==
    /\ constraints[1].kind = "PlacementRuleConstraint"
    /\ ret = "False"
    /\ \E i \in 1 .. Len(layout.seq) : layout.seq[i] = None
    /\ \E i \in 1 .. Len(layout.seq) :
           /\ layout.seq[i] # None
           /\ LayoutVerdict(constraints[1], [layout EXCEPT !.seq[i] = None]) = "False"

-----------------------------------------------------------------------------
(* Properties of SpecCentered.                                              *)

Side == At(layout.dims, 0)

\* the cells (row, column) of the layout named "bearing", by flat index
BearingCells == {i \in Range(Len(layout.seq)) : At(layout.seq, i).name = "bearing"}

\* the axis-aligned block of width x width cells whose first row and column is lo
Block(lo, width) ==
    {i \in Range(Len(layout.seq)) :
        /\ lo <= i \div Side /\ i \div Side < lo + width
        /\ lo <= i % Side /\ i % Side < lo + width}

\* the blocks of width x width cells centred in the grid, to within the half
\* cell a centre that falls between two cells leaves open
CentredBlocks(width) ==
    {Block(lo, width) : lo \in {l \in 0 .. (Side - width) :
                                  2 * l - (Side - width) \in {-1, 0, 1}}}

\* C10 (as claimed): on a complete S x S layout, for every 1 <= shaft_width <= S,
\* CenteredBearingsConstraint(shaft_width) is True exactly when the cells named
\* "bearing" are a centred block of shaft_width x shaft_width cells.
C10_TrueIffCentredShaftBlock ==
    ret \in {"True", "False"}
        => (ret = "True" <=> BearingCells \in CentredBlocks(constraints[1].shaft_width))

\* the side of the block the code accepts
AcceptedWidth ==
    IF (Side - constraints[1].shaft_width) % 2 = 0
    THEN constraints[1].shaft_width
    ELSE constraints[1].shaft_width - 1

\* C10 (amended): the same when S and shaft_width are both odd or both even;
\* otherwise the block is the centred one of (shaft_width - 1) x (shaft_width - 1)
\* cells.
C10_TrueIffCentredBlockOfAcceptedWidth ==
    ret \in {"True", "False"}
        => (ret = "True"
                <=> BearingCells = Block((Side - AcceptedWidth) \div 2, AcceptedWidth))

\* both calls have accepted the one-cell shaft in the middle of the 3 x 3 grid
C10_Witness ==
    /\ ret = "True" /\ call = "common"
    /\ CenteredBearingsConstraintCall(constraints[1], layout)
    /\ Side = 3 /\ constraints[1].shaft_width = 1
    /\ BearingCells = {4}

-----------------------------------------------------------------------------
(* Properties of SpecShaft.                                                 *)

\* k lies in [S/2 - shaft_width/2, S/2 + shaft_width/2 - 1], integer division
InEvenSpan(k) ==
    /\ Side \div 2 - constraints[1].shaft_width \div 2 <= k
    /\ k <= Side \div 2 + constraints[1].shaft_width \div 2 - 1

\* C11: for an even side S the constraint accepts a bearing, and turns down any
\* other component, in exactly the cells whose row and column both lie in
\* [S/2 - shaft_width/2, S/2 + shaft_width/2 - 1]; outside them it turns down a
\* bearing and accepts any other component.
C11_EvenSideShaftBlock ==
    (Side % 2 = 0 /\ ret \in {"True", "False"})
        => \A i \in Range(Len(layout.seq)) :
               At(layout.seq, i) # None
                   => (ret = "True"
                          <=> (At(layout.seq, i).name = "bearing"
                                  <=> InEvenSpan(i \div Side) /\ InEvenSpan(i % Side)))

\* S = 4, shaft_width = 2: the bearing in cell (1, 2) is accepted
C11_Witness ==
    /\ Side = 4 /\ constraints[1].shaft_width = 2
    /\ ret = "True"
    /\ At(layout.seq, 6) # None /\ At(layout.seq, 6).name = "bearing"
    /\ {i \in Range(16) : InEvenSpan(i \div Side) /\ InEvenSpan(i % Side)} = {5, 6, 9, 10}

-----------------------------------------------------------------------------
(* Properties of SpecRule.                                                  *)

HasIncomplete == \E i \in 1 .. Len(rule_args) : rule_args[i] = "incomplete"

\* q = |{i : N[i] == name}|
Matches == Cardinality({i \in 1 .. Len(rule_args) : rule_args[i] = rule_self.name})

\* an axis d with N[2d] == N[2d+1] == name
HasAxialPair ==
    \E d \in 0 .. (Len(rule_args) \div 2 - 1) :
        rule_args[2 * d + 1] = rule_self.name /\ rule_args[2 * d + 2] = rule_self.name

\* C12: on a neighbour tuple with no "incomplete" entry,
\* SimplePlacementRule(name, quantity, exact, axial) is True exactly when the
\* number q of entries equal to name satisfies q == quantity (exact) or
\* q >= quantity, and, with axial set, some axis has both its neighbours equal
\* to name; Simple("gold", 2, axial) is True on (gold, gold, wall, wall) and
\* False on (gold, wall, gold, wall).
C12_SimpleRuleCountsAndAxial ==
    (call = "rule" /\ rule_self.type = "SimplePlacementRule" /\ ~HasIncomplete)
        => /\ ret = "True"
                  <=> /\ IF rule_self.exact THEN Matches = rule_self.quantity
                                            ELSE Matches >= rule_self.quantity
                      /\ rule_self.axial => HasAxialPair
           /\ (rule_self = Simple("gold", 2, FALSE, TRUE)
                   /\ rule_args = <<"gold", "gold", "wall", "wall">>) => ret = "True"
           /\ (rule_self = Simple("gold", 2, FALSE, TRUE)
                   /\ rule_args = <<"gold", "wall", "gold", "wall">>) => ret = "False"

\* two gold neighbours on different axes: the quantity is met, the axial pair is not
C12_Witness ==
    /\ call = "rule" /\ ret = "False"
    /\ rule_self = Simple("gold", 2, FALSE, TRUE)
    /\ rule_args = <<"gold", "wall", "gold", "wall">>

\* every compound rule of mode OR inside the rule, at any depth, has a child
RECURSIVE EveryOrHasAChild(_)
EveryOrHasAChild(r) ==
    IF r.type # "CompoundPlacementRule" THEN TRUE
    ELSE /\ r.mode = "OR" => Len(r.rules) > 0
         /\ \A k \in 1 .. Len(r.rules) : EveryOrHasAChild(r.rules[k])

\* C13 as stated: a rule of any variant, with any nesting and any number of
\* children, returns True on every neighbour tuple that contains at least one
\* "incomplete" entry.
C13_IncompleteNeverRejected ==
    (call = "rule" /\ HasIncomplete) => ret = "True"

\* C13 amended: a rule in which every compound rule of mode OR, at every
\* nesting level, has at least one child returns True on every neighbour
\* tuple that contains at least one "incomplete" entry.
C13_IncompleteNeverRejectedWithNonEmptyOrs ==
    (call = "rule" /\ HasIncomplete /\ EveryOrHasAChild(rule_self)) => ret = "True"

\* a nested compound rule whose simple rule finds no gold pair, but one
\* neighbour is still unassigned
C13_Witness ==
    /\ call = "rule" /\ ret = "True"
    /\ rule_self = Compound(<<Compound(<<Simple("gold", 1, FALSE, TRUE)>>, "OR"),
                              Simple("gold", 1, FALSE, TRUE)>>, "AND")
    /\ rule_args = <<"wall", "copper", "wall", "incomplete">>

-----------------------------------------------------------------------------
(* Properties of SpecPlacement.                                             *)

\* the number of flat cells one step on axis d (counted from 0) spans
RECURSIVE StrideOf(_)
StrideOf(d) ==
    IF d + 1 >= Len(layout.dims) THEN 1 ELSE layout.dims[d + 2] * StrideOf(d + 1)

\* the coordinate on axis d of flat cell i
CoordOf(i, d) == (i \div StrideOf(d)) % layout.dims[d + 1]

\* what flat cell i reports to a neighbour
CellName(i) == IF layout.seq[i + 1] = None THEN "incomplete" ELSE layout.seq[i + 1].name

\* the neighbours of flat cell i: for axis d = 0 .. D-1 the +d then the -d one
CanonicalNeighbours(i) ==
    [j \in 1 .. 2 * Len(layout.dims) |->
        LET d == (j - 1) \div 2
            delta == IF j % 2 = 1 THEN 1 ELSE -1
            c == CoordOf(i, d) + delta
        IN  IF c < 0 \/ c >= layout.dims[d + 1] THEN "wall"
            ELSE CellName(i + delta * StrideOf(d))]

\* C14: PlacementRuleConstraint returns True on a layout of one, two or
\* three axes exactly when the own placement rule of every filled cell holds
\* on the tuple of its 2*D neighbours in canonical order (for each axis the
\* +d neighbour, then the -d neighbour), with "wall" outside the grid and
\* "incomplete" for an unfilled neighbour; unfilled cells are not evaluated.
C14_PlacementRulePerFilledCell ==
    (call = "constraint" /\ constraints[1] = PlacementRuleConstraint)
        => /\ ret \in {"True", "False"}
           /\ ret = "True"
                  <=> \A i \in 0 .. Len(layout.seq) - 1 :
                          layout.seq[i + 1] # None
                              => PlacementRuleCall(layout.seq[i + 1].placement_rule,
                                                   CanonicalNeighbours(i))

\* an axial coil in a corner of a 2 x 2 layout: two bearing neighbours, on
\* different axes, and a cell left unfilled
C14_Witness ==
    /\ call = "constraint" /\ ret = "False"
    /\ layout = MultiSequence(<<AXIAL_COIL, BEARING, BEARING, None>>, <<2, 2>>)

-----------------------------------------------------------------------------
(* Properties of SpecToModel.                                               *)

\* the neighbour names an assignment of ids stands for
NamesOf(ids) ==
    [k \in 1 .. Len(ids) |-> IF ids[k] = -1 THEN "wall" ELSE TypeNames[ids[k] + 1]]

\* C15: for every placement rule (Always, Simple with any combination of
\* exact and axial, Compound AND/OR) and every assignment of catalog ids and
\* walls to the neighbours, the boolean that to_model returns has, in every
\* solution of the model, the value of the direct evaluation of the rule on
\* the corresponding neighbour names.
C15_ToModelEqualsCall ==
    call = "to_model"
        => ret = BoolStr(PlacementRuleCall(rule_self, NamesOf(rule_args)))

\* mirror_d: flat cell i takes the content of the cell whose coordinate on
\* axis d is dims[d] - 1 - c[d]
MirroredLayout(d) ==
    MultiSequence(
        [k \in 1 .. Len(layout.seq) |->
            layout.seq[k + (layout.dims[d + 1] - 1 - 2 * CoordOf(k - 1, d)) * StrideOf(d)]],
        layout.dims)

\* C16: a partial or complete layout of one, two or three axes on which
\* SymmetryConstraint returns True still satisfies SymmetryConstraint after
\* it is mirrored along any one of its axes.
C16_SymmetryPreservedByMirroring ==
    (call = "constraint" /\ constraints[1] = SymmetryConstraint /\ ret = "True")
        => \A d \in 0 .. Len(layout.dims) - 1 : SymmetryConstraintCall(MirroredLayout(d))

\* a partial 2 x 2 layout that mirroring along either axis changes
C16_Witness ==
    /\ call = "constraint" /\ ret = "True"
    /\ constraints[1] = SymmetryConstraint
    /\ layout = MultiSequence(<<MAGNESIUM, MAGNESIUM, None, MAGNESIUM>>, <<2, 2>>)
    /\ MirroredLayout(0) # layout /\ MirroredLayout(1) # layout

-----------------------------------------------------------------------------
(* Properties of SpecIndex.                                                 *)

\* 0 <= t[k] < dims[k] on every axis
InGrid(t) ==
    /\ Len(t) = Len(layout.dims)
    /\ \A k \in 1 .. Len(t) : 0 <= t[k] /\ t[k] < layout.dims[k]

\* sum of t[i] * prod of dims[j], j > i, over the first n axes
RECURSIVE RowMajor(_, _)
RowMajor(t, n) == IF n = 0 THEN 0 ELSE RowMajor(t, n - 1) + t[n] * StrideOf(n - 1)

\* C17: for dims of positive integers, tuple_to_int(int_to_tuple(i)) == i for
\* every i in 0 .. prod(dims)-1, and int_to_tuple(tuple_to_int(t)) == t for
\* every tuple t with 0 <= t[k] < dims[k]; each map lands in the domain of the
\* other, so the two are mutually inverse bijections.
C17_IndexMapsAreMutuallyInverse ==
    /\ call = "int_to_tuple"
           => /\ InGrid(ret)
              /\ tuple_to_int(layout, ret) = index_key.int
    /\ (call = "tuple_to_int" /\ InGrid(index_key.tuple))
           => /\ ret \in Range(Len(layout.seq))
              /\ int_to_tuple(layout, ret) = index_key.tuple

\* flat index 4 of a 2 x 3 grid is the cell (1, 1)
C17_Witness ==
    /\ call = "int_to_tuple"
    /\ layout.dims = <<2, 3>>
    /\ index_key = IntKey(4)
    /\ ret = <<1, 1>>

\* C18: in the core and in the common MultiSequence, the lookup by a
\* coordinate tuple k returns the element of the flat buffer at index
\* sum_i k[i] * prod_{j>i} dims[j]: axis 0 is the most significant axis.
C18_LookupIsRowMajorEverywhere ==
    (call \in {"getitem", "common_getitem"} /\ ~IsInt(index_key) /\ InGrid(index_key.tuple))
        => ret = layout.seq[RowMajor(index_key.tuple, Len(layout.dims)) + 1]

\* C19: the core lookup by a coordinate tuple with a coordinate below 0 or
\* at or above its dimension raises an out-of-range error; it never returns
\* the content of a cell of the grid.
C19_OutOfGridLookupFails ==
    (call = "getitem" /\ ~IsInt(index_key) /\ ~InGrid(index_key.tuple))
        => ret = IndexError

-----------------------------------------------------------------------------
(* Properties of SpecUnknownName.                                           *)

CatalogNames == {component_types[k].name : k \in 1 .. Len(component_types)}

\* the call raised instead of returning
Raised == ret \notin {"True", "False", "None"}

\* C20: a constraint or rule that names a component absent from the catalog
\* raises an error to the caller instead of being accepted silently:
\* MaxQuantityConstraint when called and when registered to a model,
\* CenteredBearingsConstraint.to_model without a "bearing" entry, and
\* SimplePlacementRule.to_model with an unknown target name.
C20_UnknownNameRaises ==
    /\ (/\ call \in {"constraint", "constraint_to_model"}
         /\ constraints[1].kind = "MaxQuantityConstraint"
         /\ constraints[1].target_name \notin CatalogNames) => Raised
    /\ (/\ call = "constraint_to_model"
         /\ constraints[1].kind = "CenteredBearingsConstraint"
         /\ "bearing" \notin CatalogNames) => Raised
    /\ (call = "to_model" /\ rule_self.name \notin CatalogNames) => Raised

-----------------------------------------------------------------------------
(* Properties of SpecCalls.                                                 *)

\* the position (from 1) of the rightmost assigned cell, 0 when there is none
Rightmost(seq) ==
    IF \A k \in 1 .. Len(seq) : seq[k] = 0 THEN 0
    ELSE CHOOSE k \in 1 .. Len(seq) : seq[k] # 0 /\ \A j \in (k + 1) .. Len(seq) : seq[j] = 0

\* C22: advance increments the rightmost assigned cell by exactly 1, changes
\* no other cell and returns success when that cell holds a value below
\* max_value; otherwise (no assigned cell, or the cell is not below max_value)
\* it returns failure and leaves the whole sequence unchanged.
C22_AdvanceIncrementsOrFails ==
    [][call' = "advance"
         => IF Rightmost(sequence) # 0 /\ sequence[Rightmost(sequence)] < max_value
            THEN /\ ret' = "True"
                 /\ sequence' = [sequence EXCEPT ![Rightmost(sequence)] = @ + 1]
            ELSE /\ ret' = "False"
                 /\ sequence' = sequence]_vars

\* the assigned cells of seq are its first cells
PrefixShaped(seq) ==
    \A i, j \in 1 .. Len(seq) : (i < j /\ seq[i] = 0) => seq[j] = 0

\* the assigned cells other than the last one that hold less than max_value
Raisable(seq) == {k \in 1 .. (Rightmost(seq) - 1) : seq[k] < max_value}

\* C23: on a prefix-shaped sequence with an assigned cell, prev_row returns
\* success exactly when an assigned cell other than the last one holds less
\* than max_value; the result is then the sequence cut just after the
\* rightmost such cell, with that cell incremented by 1; otherwise it returns
\* failure and leaves every cell unassigned.
C23_PrevRowBacktracks ==
    [][(call' = "prev_row" /\ PrefixShaped(sequence) /\ Rightmost(sequence) # 0)
         => IF Raisable(sequence) # {}
            THEN LET k == CHOOSE c \in Raisable(sequence) :
                              \A d \in Raisable(sequence) : d <= c
                 IN  /\ ret' = "True"
                     /\ sequence' = [Truncate(sequence, k) EXCEPT ![k] = @ + 1]
            ELSE /\ ret' = "False"
                 /\ sequence' = [j \in 1 .. Len(sequence) |-> 0]]_vars

\* C25: whatever methods are called, every cell holds a value in
\* 0 .. max_value, for every length and every max_value >= 0.
C25_CellsWithinMaxValue ==
    \A k \in 1 .. Len(sequence) : 0 <= sequence[k] /\ sequence[k] <= max_value

\* C26: whatever methods are called from the all-unassigned state, the
\* assigned cells are the first cells of the sequence: no unassigned cell
\* comes before an assigned one.
C26_AssignedCellsFormAPrefix ==
    ~\E i, j \in 1 .. Len(sequence) : i < j /\ sequence[i] = 0 /\ sequence[j] # 0

\* prev_row has just cut a full sequence back to one incremented cell
C26_Witness ==
    /\ call = "prev_row" /\ ret = "True"
    /\ length = 3 /\ max_value = 2
    /\ sequence = <<2, 0, 0>>

-----------------------------------------------------------------------------
(* Properties of SpecSearch.                                                *)

\* the number of assigned cells
Filled(seq) == Cardinality({k \in 1 .. Len(seq) : seq[k] # 0})

\* C24: next_sequence attempts next_row only on a sequence that satisfies all
\* constraints; from an invalid one it takes the state advance gives, or the
\* one prev_row gives when advance fails, and never assigns a further cell; so
\* every proper assigned prefix of every state reached satisfies all
\* constraints.
C24_InvalidStatesAreNotExtended ==
    [][/\ (call' = "next_sequence" /\ is_valid(sequence) /\ Filled(sequence) < length)
           => /\ ret' = "True"
              /\ sequence' = [sequence EXCEPT ![Filled(sequence) + 1] = 1]
       /\ (call' = "next_sequence" /\ ~is_valid(sequence))
           => /\ Filled(sequence') <= Filled(sequence)
              /\ (Rightmost(sequence) # 0 /\ sequence[Rightmost(sequence)] # max_value)
                     => /\ ret' = "True"
                        /\ sequence' = [sequence EXCEPT ![Rightmost(sequence)] = @ + 1]
       /\ \A k \in 0 .. (Filled(sequence') - 1) : is_valid(Truncate(sequence', k))]_vars

\* [1, 0, 0] is invalid: the search has stepped to [2, 0, 0], not to [1, 1, 0]
C24_Witness ==
    /\ call = "next_sequence" /\ ret = "True"
    /\ length = 3 /\ max_value = 2
    /\ constraints = <<Callable({<<1, 0, 0>>})>>
    /\ sequence = <<2, 0, 0>>

\* C27: every successful call of next_sequence, and of next_valid_sequence,
\* leaves a sequence strictly greater in lexicographic order (0 below every
\* assigned value) than the sequence before the call; the states reached by
\* successful calls are therefore pairwise different until a call fails.
C27_SuccessfulStepsIncrease ==
    [][(call' \in {"next_sequence", "next_valid_sequence"} /\ ret' = "True")
         => LexLess(sequence, sequence')]_vars

\* prev_row inside next_sequence has cut the full sequence [1, 2, 2] back
C27_Witness ==
    /\ call = "next_sequence" /\ ret = "True"
    /\ length = 3 /\ max_value = 2
    /\ constraints = <<>>
    /\ sequence = <<2, 0, 0>>

-----------------------------------------------------------------------------
(* Further properties of SpecOpt.                                           *)

\* the complete valid sequences that attain the maximum score
MaxScoring == {c \in CompleteValid : \A d \in CompleteValid : score(c) >= score(d)}

\* sequence is the lexicographically smallest member of the set
LexSmallestOf(set) == sequence \in set /\ \A c \in set : c = sequence \/ LexLess(sequence, c)

\* C28 as stated: when several complete valid sequences attain the maximum
\* score, optimize leaves the lexicographically smallest of them in
\* self.sequence.
C28_TieGoesToLexSmallest ==
    (pc = "done" /\ Cardinality(MaxScoring) >= 2) => LexSmallestOf(MaxScoring)

\* C28 amended: under prefix-monotone constraints, when several complete
\* valid sequences attain the maximum score and that score is above -inf,
\* optimize leaves the lexicographically smallest of them in self.sequence.
C28_TieGoesToLexSmallestAmended ==
    (/\ pc = "done"
     /\ Cardinality(MaxScoring) >= 2
     /\ PrefixMonotone
     /\ \A c \in MaxScoring : score(c) > NegInf) => LexSmallestOf(MaxScoring)

\* the score is the first cell: the sequences that start with max_value tie,
\* and a constraint has removed some sequence
C28_Witness ==
    /\ pc = "done" /\ ret = "True"
    /\ scoring_func = "first" /\ length >= 2 /\ max_value >= 2
    /\ PrefixMonotone
    /\ Cardinality(MaxScoring) >= 2
    /\ CompleteValid # CompleteSeqs
    /\ sequence[1] = max_value

\* C29: optimize invokes the scoring function only on sequences that have no
\* unassigned cell and satisfy every constraint.
C29_ScoredStatesAreCompleteAndValid ==
    \A s \in score_calls : (\A k \in 1 .. Len(s) : s[k] # 0) /\ is_valid(s)

\* a finished search that scored some sequences and passed over an invalid
\* complete one
C29_Witness ==
    /\ pc = "done"
    /\ Cardinality(score_calls) >= 2
    /\ constraints # <<>>
    /\ length >= 2
    /\ CompleteSeqs \ CompleteValid # {}
    /\ score_calls = CompleteValid

-----------------------------------------------------------------------------
(* Further properties of SpecShaft.                                         *)

\* the flat cells the two mirrorings of a square layout take flat cell i to
Mirrors(i) ==
    {(IF my THEN Side - 1 - (i \div Side) ELSE i \div Side) * Side
         + (IF mx THEN Side - 1 - (i % Side) ELSE i % Side) : my, mx \in BOOLEAN}

\* the layout SymmetryConstraint asks for: every cell that mirrors a filled
\* cell holds the same component
SymmetricClosure ==
    MultiSequence(
        [k \in 1 .. Len(layout.seq) |->
            IF \E j \in Mirrors(k - 1) : At(layout.seq, j) # None
            THEN At(layout.seq, CHOOSE j \in Mirrors(k - 1) : At(layout.seq, j) # None)
            ELSE None],
        layout.dims)

\* C30: for every side S and every shaft_width in 1 .. S, a cell (y, x) is in
\* the bearing block of CenteredBearingsConstraint exactly when (S-1-y, x) and
\* (y, S-1-x) are; the verdict on a layout is the verdict on its mirror images,
\* and a layout the constraint accepts is still accepted, and symmetric, once
\* its filled cells are copied to their mirror cells.
C30_BearingBlockIsMirrorSymmetric ==
    call = "core"
        => /\ \A y, x \in Range(Side) :
                  /\ InShaft(constraints[1], layout, y, x)
                         <=> InShaft(constraints[1], layout, Side - 1 - y, x)
                  /\ InShaft(constraints[1], layout, y, x)
                         <=> InShaft(constraints[1], layout, y, Side - 1 - x)
           /\ \A d \in {0, 1} :
                  ret = BoolStr(CenteredBearingsConstraintCall(constraints[1], MirroredLayout(d)))
           /\ ret = "True"
                  => /\ CenteredBearingsConstraintCall(constraints[1], SymmetricClosure)
                     /\ SymmetryConstraintCall(SymmetricClosure)

\* a bearing off the diagonals of the 3 x 3 block of a 5 x 5 grid
C30_Witness ==
    /\ call = "core" /\ ret = "True"
    /\ Side = 5 /\ constraints[1].shaft_width = 3
    /\ At(layout.seq, 7) = BEARING
    /\ At(SymmetricClosure.seq, 17) = BEARING

-----------------------------------------------------------------------------
(* Properties of SpecLegacy.                                                *)

\* C21: the PlacementRuleConstraint of common/, checked on or applied to a
\* layout of at least one cell whose rank is neither 2 nor 3, raises
\* NotImplementedError and returns no verdict.
C21_LegacyUnsupportedRankRaises ==
    (/\ call \in {"common_check", "common_apply",
                  "common_check_on_core", "common_apply_on_core"}
     /\ Len(layout.seq) > 0
     /\ Len(layout.dims) \notin {2, 3})
        => ret = "NotImplementedError"

====
